---- MODULE Spec2Model ----
(***************************************************************************)
(* Job control of the swish shell (proj2-code): the read-eval loop of      *)
(* main(), resume_job (fg / bg), await_background_job (wait-for),          *)
(* await_all_background_jobs (wait-all), the forked child running          *)
(* run_command, and the kernel objects they act on (child processes,       *)
(* process groups, the terminal's foreground process group).               *)
(*                                                                         *)
(* Spec          the shell as leader of its process group                  *)
(* NonLeaderSpec the shell in the process group of the program that        *)
(*               started it                                                *)
(* FairSpec      Spec with running jobs and blocked waits scheduled        *)
(* ExecSpec      the forked child in run_command, for every token list     *)
(***************************************************************************)
EXTENDS Integers, Sequences, FiniteSets, TLC

\* ------------------------------------------------------------- bounds
\* Number of process ids the kernel can hand to children of the shell.
MaxProcs == 2
\* Launches are not issued once the registry holds this many records.
MaxJobs == 2
\* Longest token list given to run_command.
MaxTokens == 4

\* ------------------------------------------------------- process ids
ChildPids == 1..MaxProcs
\* The shell's own pid, and the group of the program that started the shell
\* (the shell's group when the shell is not a group leader).
ShellPid == MaxProcs + 1
LaunchPgid == MaxProcs + 2

\* ------------------------------------------------ job_list.h (absent)
\* job_status_t: the enum the registry stores in a record's status field.
BACKGROUND == 0
STOPPED == 1

\* ------------------------------------------------ wait status words
\* <sys/wait.h>: the status word waitpid stores, and the macros reading it.
W_EXITCODE(code) == code * 256
W_TERMSIG(sig) == sig
W_STOPCODE(sig) == sig * 256 + 127
WIFEXITED(status) == status % 128 = 0
WIFSTOPPED(status) == status % 256 = 127
WIFSIGNALED(status) == (status % 128) # 0 /\ (status % 128) # 127

\* Signals that stop a job (SIGTSTP) and that kill one (SIGKILL).
StopSignals == {20}
TermSignals == {9}
\* Exit code of a program that ran to its end; run_command's failure makes
\* the child exit(1).
ProgramExitCodes == {0}
ChildFailureStatus == W_EXITCODE(1)

\* ------------------------------------------------------------ tokens
\* A token is a sequence of characters; a command line is a sequence of
\* tokens, as tokenize() leaves them in the tokens vector.
Tok_fg == <<"f", "g">>
Tok_bg == <<"b", "g">>
Tok_wait_for == <<"w", "f">>
Tok_wait_all == <<"w", "a">>
Tok_jobs == <<"j">>
Tok_exit == <<"e">>
Tok_amp == <<"&">>
Tok_prog == <<"p">>
\* Bytes that are no token of the line: what a released string can hold.
Tok_garbage == <<"?">>
Tok_file == <<"a">>
Tok_in == <<"<">>
Tok_out == <<">">>
Tok_append == <<">", ">">>

Digits == <<"0", "1", "2", "3", "4", "5", "6", "7", "8", "9">>
IsDigit(c) == \E d \in 1..10 : Digits[d] = c
DigitValue(c) == (CHOOSE d \in 1..10 : Digits[d] = c) - 1

\* sscanf(s, "%d", &n): an optional sign, then the longest run of digits.
\* <<1, n>> when at least one digit was read, <<0, 0>> otherwise.
RECURSIVE ScanDigits(_, _, _)
ScanDigits(s, i, acc) ==
    IF i <= Len(s) /\ IsDigit(s[i])
    THEN ScanDigits(s, i + 1, acc * 10 + DigitValue(s[i]))
    ELSE acc

sscanf_d(s) ==
    LET signed == Len(s) >= 1 /\ s[1] \in {"-", "+"}
        first == IF signed THEN 2 ELSE 1
        mag == ScanDigits(s, first, 0)
    IN IF first <= Len(s) /\ IsDigit(s[first])
       THEN <<1, IF signed /\ s[1] = "-" THEN 0 - mag ELSE mag>>
       ELSE <<0, 0>>

\* The index arguments tried: every index 0..MaxJobs (MaxJobs is always out
\* of range), a negative number and a non-number.
DigitArgs == {<<Digits[n + 1]>> : n \in 0..MaxJobs}
IndexArgs == DigitArgs \cup {<<"-", "1">>, <<"x">>}

\* The command lines read at the prompt.  fg and bg are tried with every
\* index argument and with none, wait-for with the numbers.
Lines ==
    {<<Tok_jobs>>, <<Tok_exit>>, <<Tok_wait_all>>, <<Tok_prog>>, <<Tok_prog, Tok_amp>>,
     <<Tok_amp>>}
        \cup {<<c>> : c \in {Tok_fg, Tok_bg}}
        \cup {<<c, a>> : c \in {Tok_fg, Tok_bg}, a \in IndexArgs}
        \cup {<<Tok_wait_for, a>> : a \in DigitArgs}

\* string_vector.c
strvec_get(vec, i) == IF i >= Len(vec) THEN <<>> ELSE vec[i + 1]
strvec_take(vec, n) == IF n >= Len(vec) THEN vec ELSE SubSeq(vec, 1, n)
\* The index (0-based) of the first token equal to tok, -1 when there is none.
strvec_find(vec, tok) ==
    IF \E i \in 1..Len(vec) : vec[i] = tok
    THEN (CHOOSE i \in 1..Len(vec) :
              vec[i] = tok /\ \A k \in 1..(i - 1) : vec[k] # tok) - 1
    ELSE -1

\* ------------------------------------------------------------- state
VARIABLES
    pc,          \* where the shell is: "prompt" (in fgets), a blocking wait,
                 \* "loop_end" (swish.c:218) or "exited"
    main_ret,    \* the value main() returned, once pc = "exited"
    tokens,      \* main: the tokens vector
    background,  \* main: the line ended in &
    jobs,        \* the job registry: sequence of [pid, name, status]
    proc,        \* kernel: per child pid, its state
    tty,         \* kernel: the terminal's foreground process group
    shell_pgid,  \* kernel: the shell's process group
    ret,         \* return value of the built-in function called for the line
    trace,       \* system calls the shell made for the line
    cpid,        \* main: pid of the forked child
    job_index,   \* resume_job / await_background_job: the parsed index
    job,         \* resume_job / await_background_job: position of *job
    current,     \* await_all_background_jobs: position of *current
    start_jobs,  \* history: the registry as wait-all found it
    args         \* run_command: the argument vector given to execvp

vars == <<pc, main_ret, tokens, background, jobs, proc, tty, shell_pgid, ret,
          trace, cpid, job_index, job, current, start_jobs, args>>

FreeProc == [st |-> "free", pgid |-> 0, ws |-> 0, rep |-> FALSE]

\* ------------------------------------------------- job registry (absent)
job_list_add(list, pid, name, status) ==
    Append(list, [pid |-> pid, name |-> name, status |-> status])

\* The position (1-based) of the record at index idx, 0 for NULL.
job_list_get(list, idx) ==
    IF idx >= 0 /\ idx < Len(list) THEN idx + 1 ELSE 0

job_list_remove(list, idx) ==
    IF idx >= 0 /\ idx < Len(list)
    THEN SubSeq(list, 1, idx) \o SubSeq(list, idx + 2, Len(list))
    ELSE list

job_list_remove_by_status(list, status) ==
    SelectSeq(list, LAMBDA j : j.status # status)

\* ------------------------------------------------------------ kernel
\* A process group exists while a process that is not yet reaped is in it.
HasMember(pt, g) ==
    \E p \in ChildPids : pt[p].st # "free" /\ pt[p].pgid = g

GroupExists(pt, g) == g = shell_pgid \/ HasMember(pt, g)

\* tcsetpgrp(STDIN_FILENO, g), standard input being the controlling
\* terminal: fails when no process group g exists in the session.
TcsetpgrpResults(pt, g) == IF GroupExists(pt, g) THEN {0} ELSE {-1}

\* kill(-g, SIGCONT): fails when the group has no member; a group that has
\* one now may have lost it when the signal is sent (the program can leave
\* its group), so the call may fail then too.
KillResults(pt, g) == IF HasMember(pt, g) THEN {0, -1} ELSE {-1}

\* SIGCONT delivered to every member of group g: stopped members run again.
Continued(g) ==
    [p \in ChildPids |->
        IF proc[p].pgid = g /\ proc[p].st = "stopped"
        THEN [proc[p] EXCEPT !.st = "execd", !.ws = 0, !.rep = FALSE]
        ELSE proc[p]]

\* waitpid(p, &status, WUNTRACED): the status words it can return now, and
\* -1 for a failure: ECHILD when p is no child to wait for, and the failures
\* the environment can cause for a child that is there (EINTR; ECHILD when
\* SIGCHLD was inherited as ignored).
WaitResults(p) ==
    IF p \notin ChildPids \/ proc[p].st = "free" THEN {-1}
    ELSE {-1} \cup
         (IF proc[p].st = "zombie" \/ (proc[p].st = "stopped" /\ proc[p].rep)
          THEN {proc[p].ws} ELSE {})

\* The process table after waitpid(p) returned r: a terminated child is
\* reaped, a stop is reported once.
Waited(p, r) ==
    IF r < 0 THEN proc
    ELSE IF proc[p].st = "zombie" THEN [proc EXCEPT ![p] = FreeProc]
    ELSE [proc EXCEPT ![p].rep = FALSE]

\* setpgid(p, p) called by the parent: EACCES once the child has exec'd.
SetpgidResults(p) ==
    CASE proc[p].st \in {"pre", "noargs", "pgset"} -> {0}
      [] proc[p].st \in {"execd", "stopped"} -> {-1}
      [] OTHER -> {0, -1}

Init ==
    /\ pc = "prompt"
    /\ main_ret = 0
    /\ tokens = <<>>
    /\ background = 0
    /\ jobs = <<>>
    /\ proc = [p \in ChildPids |-> FreeProc]
    /\ shell_pgid = ShellPid
    /\ tty = shell_pgid
    /\ ret = 0
    /\ trace = <<>>
    /\ cpid = 0
    /\ job_index = 0
    /\ job = 0
    /\ current = 0
    /\ start_jobs = <<>>
    /\ args = <<>>

\* ------------------------------------------------------ main: launch
\* main() returning from inside the loop: the shell process is gone.
MainReturns(code) ==
    /\ pc' = "exited"
    /\ main_ret' = code

\* swish.c:218-221: the prompt is printed and the tokens vector cleared; the
\* shell is in fgets again.  What the iteration left in main's locals is
\* dead from here on.
EndOfIteration ==
    /\ pc = "loop_end"
    /\ pc' = "prompt"
    /\ tokens' = <<>>
    /\ background' = 0
    /\ ret' = 0
    /\ trace' = <<>>
    /\ cpid' = 0
    /\ job_index' = 0
    /\ job' = 0
    /\ current' = 0
    /\ start_jobs' = <<>>
    /\ UNCHANGED <<main_ret, jobs, proc, tty, shell_pgid, args>>

\* BackgroundLaunched with the record labelled as a stopped job.
BackgroundLaunched_AsStopped(list, child, toks) ==
    job_list_add(list, child, toks[1], STOPPED)

\* swish.c:184-188: the registry once the parent has forked a background
\* child; nothing else is done for it.
BackgroundLaunched(list, child, toks) ==
    job_list_add(list, child, toks[1], BACKGROUND)

\* tokens.data[0] as main reads it for job_list_add (swish.c:188).  With
\* an empty vector the slot holds the string strvec_take released
\* (string_vector.c:84-87) and the read is undefined: the old bytes are
\* still there, other bytes are, or the read faults.
FirstTokenRead(line, toks) ==
    IF Len(toks) > 0 THEN {[fault |-> FALSE, data |-> <<toks[1]>>]}
    ELSE {[fault |-> FALSE, data |-> <<line[1]>>],
          [fault |-> FALSE, data |-> <<Tok_garbage>>],
          [fault |-> TRUE, data |-> <<>>]}

\* swish.c:162-188: strip a trailing &, fork; the parent of a background
\* child adds its record at once, the parent of a foreground child goes on
\* to setpgid.  A child whose vector is empty ("noargs") can only fail in
\* run_command.  A shell that faults is gone, killed by SIGSEGV.
Launch(line) ==
    /\ pc = "prompt"
    /\ Len(jobs) < MaxJobs
    /\ LET bg == IF Len(line) > 0 /\ line[Len(line)] = Tok_amp THEN 1 ELSE 0
           toks == IF bg = 1 THEN strvec_take(line, Len(line) - 1) ELSE line
       IN \E r \in {p \in ChildPids : proc[p].st = "free"} \cup {-1} :
            /\ tokens' = toks
            /\ background' = bg
            /\ trace' = <<<<"fork", 0, r>>>>
            /\ IF r < 0
               THEN /\ MainReturns(1)
                    /\ UNCHANGED <<jobs, proc, cpid>>
               ELSE /\ proc' = [proc EXCEPT ![r] =
                                   [st |-> IF Len(toks) > 0 THEN "pre"
                                           ELSE "noargs",
                                    pgid |-> shell_pgid,
                                    ws |-> 0, rep |-> FALSE]]
                    /\ cpid' = r
                    /\ IF bg = 1
                       THEN \E rd \in FirstTokenRead(line, toks) :
                              IF rd.fault
                              THEN /\ MainReturns(128 + 11)
                                   /\ jobs' = jobs
                              ELSE /\ jobs' = BackgroundLaunched(jobs, r, rd.data)
                                   /\ pc' = "loop_end"
                                   /\ main_ret' = main_ret
                       ELSE /\ jobs' = jobs
                            /\ pc' = "fl_parent"
                            /\ main_ret' = main_ret
    /\ UNCHANGED <<tty, shell_pgid, ret, job_index, job, current, start_jobs,
                   args>>

\* swish.c:193-201: the parent puts the child in its own group and hands it
\* the terminal, then blocks in waitpid.
ForegroundHandOff ==
    /\ pc = "fl_parent"
    /\ \E r1 \in SetpgidResults(cpid) :
         IF r1 < 0
         THEN /\ trace' = Append(trace, <<"setpgid", cpid, r1>>)
              /\ MainReturns(-1)
              /\ UNCHANGED <<proc, tty>>
         ELSE LET proc1 == [proc EXCEPT ![cpid].pgid = cpid]
              IN \E r2 \in TcsetpgrpResults(proc1, cpid) :
                   /\ proc' = proc1
                   /\ trace' = trace \o <<<<"setpgid", cpid, r1>>,
                                          <<"tcsetpgrp", cpid, r2>>>>
                   /\ IF r2 < 0
                      THEN /\ MainReturns(-1)
                           /\ tty' = tty
                      ELSE /\ tty' = cpid
                           /\ pc' = "fl_wait"
                           /\ main_ret' = main_ret
    /\ UNCHANGED <<tokens, background, jobs, shell_pgid, ret, cpid, job_index,
                   job, current, start_jobs, args>>

\* ForegroundRestore with the terminal given back only after a stop.
ForegroundRestore_OnlyAfterStop(pt, list, child, name, status) ==
    {[r |-> r,
      tty |-> IF r = 0 /\ WIFSTOPPED(status) THEN ShellPid ELSE tty,
      jobs |-> IF r = 0 /\ WIFSTOPPED(status)
               THEN job_list_add(list, child, name, status) ELSE list]
     : r \in TcsetpgrpResults(pt, ShellPid)}

\* ForegroundRestore with the new record put at the head of the registry.
ForegroundRestore_AtHead(pt, list, child, name, status) ==
    {[r |-> r,
      tty |-> IF r = 0 THEN ShellPid ELSE tty,
      jobs |-> IF r = 0 /\ WIFSTOPPED(status)
               THEN <<[pid |-> child, name |-> name, status |-> status]>> \o list
               ELSE list]
     : r \in TcsetpgrpResults(pt, ShellPid)}

\* swish.c:207-214: after the wait the terminal goes to shell_pid (getpid());
\* a stopped child gets a record whose status argument is the status word.
\* The outcomes: the result of the tcsetpgrp, the terminal and the registry.
ForegroundRestore(pt, list, child, name, status) ==
    {[r |-> r,
      tty |-> IF r = 0 THEN ShellPid ELSE tty,
      jobs |-> IF r = 0 /\ WIFSTOPPED(status)
               THEN job_list_add(list, child, name, status) ELSE list]
     : r \in TcsetpgrpResults(pt, ShellPid)}

\* swish.c:202-215: the wait of a foreground launch returns.
ForegroundWaitReturns ==
    /\ pc = "fl_wait"
    /\ \E status \in WaitResults(cpid) :
         IF status < 0
         THEN /\ trace' = Append(trace, <<"waitpid", cpid, -1>>)
              /\ MainReturns(-1)
              /\ UNCHANGED <<proc, tty, jobs>>
         ELSE /\ proc' = Waited(cpid, status)
              /\ \E o \in ForegroundRestore(proc', jobs, cpid, tokens[1], status) :
                   /\ trace' = trace \o <<<<"waitpid", cpid, status>>,
                                          <<"tcsetpgrp", ShellPid, o.r>>>>
                   /\ tty' = o.tty
                   /\ jobs' = o.jobs
                   /\ IF o.r < 0
                      THEN MainReturns(-1)
                      ELSE /\ pc' = "loop_end"
                           /\ main_ret' = main_ret
    /\ UNCHANGED <<tokens, background, shell_pgid, ret, cpid, job_index, job,
                   current, start_jobs, args>>

\* ------------------------------------------------ resume_job (fg, bg)
NoJob == [err |-> TRUE, job_index |-> 0, job |-> 0]

\* ResumeLookup without the check of sscanf's result: job_index is used as
\* it is (0 here) when nothing was read.
ResumeLookup_ScanUnchecked(toks, list) ==
    IF Len(toks) < 2 THEN NoJob
    ELSE LET sc == sscanf_d(toks[2])
         IN IF job_list_get(list, sc[2]) = 0 THEN NoJob
            ELSE [err |-> FALSE, job_index |-> sc[2],
                  job |-> job_list_get(list, sc[2])]

\* swish_funcs.c:175-188: the index argument is read and resolved.
ResumeLookup(toks, list) ==
    IF Len(toks) < 2 THEN NoJob
    ELSE LET sc == sscanf_d(toks[2])
         IN IF sc[1] # 1 THEN NoJob
            ELSE IF job_list_get(list, sc[2]) = 0 THEN NoJob
            ELSE [err |-> FALSE, job_index |-> sc[2],
                  job |-> job_list_get(list, sc[2])]

\* ResumeHandOff with SIGCONT sent first and the terminal handed over after.
ResumeHandOff_SignalFirst(pid, is_foreground) ==
    UNION {
        IF r2 < 0
        THEN {[ret |-> -1, trace |-> <<<<"kill", pid, r2>>>>,
               tty |-> tty, proc |-> proc]}
        ELSE {[ret |-> r1,
               trace |-> <<<<"kill", pid, r2>>>> \o
                         (IF is_foreground THEN <<<<"tcsetpgrp", pid, r1>>>>
                          ELSE <<>>),
               tty |-> IF is_foreground /\ r1 = 0 THEN pid ELSE tty,
               proc |-> Continued(pid)]
              : r1 \in IF is_foreground THEN TcsetpgrpResults(proc, pid) ELSE {0}}
        : r2 \in KillResults(proc, pid)}

\* ResumeHandOff handing the terminal to the job's group for bg as well.
ResumeHandOff_TerminalAlways(pid, is_foreground) ==
    UNION {
        IF r1 < 0
        THEN {[ret |-> -1, trace |-> <<<<"tcsetpgrp", pid, r1>>>>,
               tty |-> tty, proc |-> proc]}
        ELSE {[ret |-> r2,
               trace |-> <<<<"tcsetpgrp", pid, r1>>, <<"kill", pid, r2>>>>,
               tty |-> pid,
               proc |-> IF r2 = 0 THEN Continued(pid) ELSE proc]
              : r2 \in KillResults(proc, pid)}
        : r1 \in TcsetpgrpResults(proc, pid)}

\* swish_funcs.c:189-202: for fg the terminal goes to the job's group, then
\* SIGCONT goes to the group.  The outcomes: what was called, with what
\* result, and the terminal and process table left behind.
ResumeHandOff(pid, is_foreground) ==
    UNION {
        IF r1 < 0
        THEN {[ret |-> -1, trace |-> <<<<"tcsetpgrp", pid, r1>>>>,
               tty |-> tty, proc |-> proc]}
        ELSE {[ret |-> r2,
               trace |-> (IF is_foreground THEN <<<<"tcsetpgrp", pid, r1>>>>
                          ELSE <<>>) \o <<<<"kill", pid, r2>>>>,
               tty |-> IF is_foreground THEN pid ELSE tty,
               proc |-> IF r2 = 0 THEN Continued(pid) ELSE proc]
              : r2 \in KillResults(proc, pid)}
        : r1 \in IF is_foreground THEN TcsetpgrpResults(proc, pid) ELSE {0}}

\* ResumeAfterWait removing the record after the one that was waited on.
ResumeAfterWait_OffByOne(list, idx, pos, status) ==
    IF WIFEXITED(status) \/ WIFSIGNALED(status) THEN job_list_remove(list, idx + 1)
    ELSE IF WIFSTOPPED(status) THEN [list EXCEPT ![pos].status = STOPPED]
    ELSE list

\* swish_funcs.c:211-216: the registry after the wait of fg returned status.
ResumeAfterWait(list, idx, pos, status) ==
    IF WIFEXITED(status) \/ WIFSIGNALED(status) THEN job_list_remove(list, idx)
    ELSE IF WIFSTOPPED(status) THEN [list EXCEPT ![pos].status = STOPPED]
    ELSE list

\* swish.c:133-145 and swish_funcs.c:174-202, 222-226: fg <i> up to its
\* wait, bg <i> whole.
ResumeJob(line, is_foreground) ==
    /\ pc = "prompt"
    /\ tokens' = line
    /\ LET lk == ResumeLookup(line, jobs)
       IN IF lk.err
          THEN /\ ret' = -1
               /\ trace' = <<>>
               /\ pc' = "loop_end"
               /\ UNCHANGED <<jobs, proc, tty, job_index, job>>
          ELSE /\ job_index' = lk.job_index
               /\ job' = lk.job
               /\ \E o \in ResumeHandOff(jobs[lk.job].pid, is_foreground) :
                    /\ trace' = o.trace
                    /\ tty' = o.tty
                    /\ proc' = o.proc
                    /\ IF o.ret < 0
                       THEN /\ ret' = -1
                            /\ pc' = "loop_end"
                            /\ jobs' = jobs
                       ELSE IF is_foreground
                       THEN /\ pc' = "rj_wait"
                            /\ UNCHANGED <<ret, jobs>>
                       ELSE /\ jobs' = [jobs EXCEPT ![lk.job].status = BACKGROUND]
                            /\ ret' = 0
                            /\ pc' = "loop_end"
    /\ UNCHANGED <<main_ret, background, shell_pgid, cpid, current, start_jobs,
                   args>>

\* swish_funcs.c:203-221: the wait of fg returns; the record is removed or
\* marked, then the terminal goes back to shell_pgid (getpgid(0)).
ResumeWaitReturns ==
    /\ pc = "rj_wait"
    /\ \E status \in WaitResults(jobs[job].pid) :
         IF status < 0
         THEN /\ trace' = Append(trace, <<"waitpid", jobs[job].pid, -1>>)
              /\ ret' = -1
              /\ UNCHANGED <<proc, jobs, tty>>
         ELSE /\ proc' = Waited(jobs[job].pid, status)
              /\ jobs' = ResumeAfterWait(jobs, job_index, job, status)
              /\ \E r \in TcsetpgrpResults(proc', shell_pgid) :
                   /\ trace' = trace \o <<<<"waitpid", jobs[job].pid, status>>,
                                          <<"tcsetpgrp", shell_pgid, r>>>>
                   /\ ret' = r
                   /\ tty' = IF r = 0 THEN shell_pgid ELSE tty
    /\ pc' = "loop_end"
    /\ UNCHANGED <<main_ret, tokens, background, shell_pgid, cpid, job_index,
                   job, current, start_jobs, args>>

\* ------------------------------------- await_background_job (wait-for)
\* AwaitLookup refusing only the records whose status is STOPPED.
AwaitLookup_StoppedOnly(toks, list) ==
    LET lk == ResumeLookup(toks, list)
    IN IF lk.err THEN NoJob
       ELSE IF list[lk.job].status = STOPPED THEN NoJob
       ELSE lk

\* swish_funcs.c:238-256: the index is read and resolved, and the record
\* must be a background one.
AwaitLookup(toks, list) ==
    LET lk == ResumeLookup(toks, list)
    IN IF lk.err THEN NoJob
       ELSE IF list[lk.job].status # BACKGROUND THEN NoJob
       ELSE lk

\* AwaitAfterWait marking the record as a stopped one when the wait
\* reported a stop, as resume_job does.
AwaitAfterWait_MarksStopped(list, idx, status) ==
    IF WIFEXITED(status) \/ WIFSIGNALED(status) THEN job_list_remove(list, idx)
    ELSE IF WIFSTOPPED(status) THEN [list EXCEPT ![idx + 1].status = STOPPED]
    ELSE list

\* swish_funcs.c:264-266
AwaitAfterWait(list, idx, status) ==
    IF WIFEXITED(status) \/ WIFSIGNALED(status) THEN job_list_remove(list, idx)
    ELSE list

\* swish.c:147-152 and swish_funcs.c:237-258: wait-for <i> up to its wait.
AwaitBackgroundJob(line) ==
    /\ pc = "prompt"
    /\ tokens' = line
    /\ trace' = <<>>
    /\ LET lk == AwaitLookup(line, jobs)
       IN IF lk.err
          THEN /\ ret' = -1
               /\ pc' = "loop_end"
               /\ UNCHANGED <<job_index, job>>
          ELSE /\ job_index' = lk.job_index
               /\ job' = lk.job
               /\ pc' = "abj_wait"
               /\ ret' = ret
    /\ UNCHANGED <<main_ret, background, jobs, proc, tty, shell_pgid, cpid,
                   current, start_jobs, args>>

\* swish_funcs.c:259-267: the wait of wait-for returns.
AwaitWaitReturns ==
    /\ pc = "abj_wait"
    /\ \E status \in WaitResults(jobs[job].pid) :
         /\ trace' = Append(trace, <<"waitpid", jobs[job].pid, status>>)
         /\ proc' = Waited(jobs[job].pid, status)
         /\ IF status < 0
            THEN /\ ret' = -1
                 /\ jobs' = jobs
            ELSE /\ ret' = 0
                 /\ jobs' = AwaitAfterWait(jobs, job_index, status)
    /\ pc' = "loop_end"
    /\ UNCHANGED <<main_ret, tokens, background, tty, shell_pgid, cpid,
                   job_index, job, current, start_jobs, args>>

\* ------------------------------- await_all_background_jobs (wait-all)
\* The first record at position from or later that the first pass waits
\* on (swish_funcs.c:280-281, 294), 0 when the pass is over.
RECURSIVE NextBackground(_, _)
NextBackground(list, from) ==
    IF from > Len(list) THEN 0
    ELSE IF list[from].status = BACKGROUND THEN from
    ELSE NextBackground(list, from + 1)

\* swish_funcs.c:288-291
AwaitAllAfterWait(list, pos, status) ==
    IF WIFSTOPPED(status) THEN [list EXCEPT ![pos].status = STOPPED] ELSE list

\* swish.c:154-159 and swish_funcs.c:277-284: wait-all up to its first wait
\* (or to its end when no record is a background one).
AwaitAllBackgroundJobs(line) ==
    /\ pc = "prompt"
    /\ tokens' = line
    /\ trace' = <<>>
    /\ current' = NextBackground(jobs, 1)
    /\ start_jobs' = jobs
    /\ IF current' = 0
       THEN /\ jobs' = job_list_remove_by_status(jobs, BACKGROUND)
            /\ ret' = 0
            /\ pc' = "loop_end"
       ELSE /\ pc' = "aabj_wait"
            /\ UNCHANGED <<jobs, ret>>
    /\ UNCHANGED <<main_ret, background, proc, tty, shell_pgid, cpid, job_index,
                   job, args>>

\* swish_funcs.c:284-299: a wait of the first pass returns; the pass goes on
\* to the next background record, and after the last one the second pass
\* removes the records still marked BACKGROUND.
AwaitAllWaitReturns ==
    /\ pc = "aabj_wait"
    /\ \E status \in WaitResults(jobs[current].pid) :
         /\ trace' = Append(trace, <<"waitpid", jobs[current].pid, status>>)
         /\ proc' = Waited(jobs[current].pid, status)
         /\ IF status < 0
            THEN /\ ret' = -1
                 /\ pc' = "loop_end"
                 /\ UNCHANGED <<jobs, current>>
            ELSE LET list1 == AwaitAllAfterWait(jobs, current, status)
                     nxt == NextBackground(list1, current + 1)
                 IN IF nxt = 0
                    THEN /\ jobs' = job_list_remove_by_status(list1, BACKGROUND)
                         /\ ret' = 0
                         /\ pc' = "loop_end"
                         /\ current' = 0
                    ELSE /\ jobs' = list1
                         /\ current' = nxt
                         /\ UNCHANGED <<ret, pc>>
    /\ UNCHANGED <<main_ret, tokens, background, tty, shell_pgid, cpid,
                   job_index, job, start_jobs, args>>

\* ----------------------------------------------------- jobs, exit
\* swish.c:116-131: the lines the jobs built-in prints.
JobsOutput(list) ==
    [i \in 1..Len(list) |->
        <<i - 1, list[i].name,
          IF list[i].status = BACKGROUND THEN "background" ELSE "stopped">>]

Jobs(line) ==
    /\ pc = "prompt"
    /\ tokens' = line
    /\ trace' = <<>>
    /\ pc' = "loop_end"
    /\ UNCHANGED <<main_ret, background, jobs, proc, tty, shell_pgid, ret, cpid,
                   job_index, job, current, start_jobs, args>>

\* swish.c:110-114, 224-226
Exit(line) ==
    /\ pc = "prompt"
    /\ tokens' = <<>>
    /\ trace' = <<>>
    /\ MainReturns(0)
    /\ UNCHANGED <<background, jobs, proc, tty, shell_pgid, ret, cpid,
                   job_index, job, current, start_jobs, args>>

\* ------------------------------------------- the child and its program
\* The children run while the shell is in fgets or in a wait, and between
\* the fork and the system calls that follow it; a step of a child between
\* the end of a built-in and the prompt is the same step taken at the
\* prompt.
ChildrenRun == pc \notin {"exited", "loop_end"}

\* swish_funcs.c:149-153: the child makes itself a group leader.
ChildSetpgid(p) ==
    /\ ChildrenRun
    /\ proc[p].st = "pre"
    /\ proc' = [proc EXCEPT ![p].st = "pgset", ![p].pgid = p]
    /\ UNCHANGED <<pc, main_ret, tokens, background, jobs, tty, shell_pgid, ret,
                   trace, cpid, job_index, job, current, start_jobs, args>>

\* swish_funcs.c:156: execvp succeeds.
ChildExec(p) ==
    /\ ChildrenRun
    /\ proc[p].st = "pgset"
    /\ proc' = [proc EXCEPT ![p].st = "execd"]
    /\ UNCHANGED <<pc, main_ret, tokens, background, jobs, tty, shell_pgid, ret,
                   trace, cpid, job_index, job, current, start_jobs, args>>

\* swish.c:178-180 and swish_funcs.c:156-158: run_command fails before its
\* setpgid, or execvp fails: the child exits with code 1.
ChildFails(p) ==
    /\ ChildrenRun
    /\ proc[p].st \in {"pre", "noargs", "pgset"}
    /\ proc' = [proc EXCEPT ![p].st = "zombie", ![p].ws = ChildFailureStatus]
    /\ UNCHANGED <<pc, main_ret, tokens, background, jobs, tty, shell_pgid, ret,
                   trace, cpid, job_index, job, current, start_jobs, args>>

\* The program is stopped by a signal; the stop is there for one wait.
ProgramStops(p) ==
    /\ ChildrenRun
    /\ proc[p].st = "execd"
    /\ \E sig \in StopSignals :
         proc' = [proc EXCEPT ![p].st = "stopped", ![p].ws = W_STOPCODE(sig),
                              ![p].rep = TRUE]
    /\ UNCHANGED <<pc, main_ret, tokens, background, jobs, tty, shell_pgid, ret,
                   trace, cpid, job_index, job, current, start_jobs, args>>

\* The program exits, or a signal kills it (running or stopped).
ProgramEnds(p) ==
    /\ ChildrenRun
    /\ proc[p].st \in {"execd", "stopped"}
    /\ \E ws \in {W_TERMSIG(sig) : sig \in TermSignals} \cup
                 (IF proc[p].st = "execd"
                  THEN {W_EXITCODE(c) : c \in ProgramExitCodes} ELSE {}) :
         proc' = [proc EXCEPT ![p].st = "zombie", ![p].ws = ws, ![p].rep = FALSE]
    /\ UNCHANGED <<pc, main_ret, tokens, background, jobs, tty, shell_pgid, ret,
                   trace, cpid, job_index, job, current, start_jobs, args>>

\* main's dispatch on the first token (swish.c:67-161): the lines that
\* reach each branch.
LinesOf(first_token) == {line \in Lines : strvec_get(line, 0) = first_token}
LaunchLines == LinesOf(Tok_prog) \cup LinesOf(Tok_amp)
FgLines == LinesOf(Tok_fg)
BgLines == LinesOf(Tok_bg)
WaitForLines == LinesOf(Tok_wait_for)
WaitAllLines == LinesOf(Tok_wait_all)
JobsLines == LinesOf(Tok_jobs)
ExitLines == LinesOf(Tok_exit)

Next ==
    \/ \E line \in LaunchLines : Launch(line)
    \/ ForegroundHandOff
    \/ ForegroundWaitReturns
    \/ \E line \in FgLines : ResumeJob(line, TRUE)
    \/ \E line \in BgLines : ResumeJob(line, FALSE)
    \/ ResumeWaitReturns
    \/ \E line \in WaitForLines : AwaitBackgroundJob(line)
    \/ AwaitWaitReturns
    \/ \E line \in WaitAllLines : AwaitAllBackgroundJobs(line)
    \/ AwaitAllWaitReturns
    \/ \E line \in JobsLines : Jobs(line)
    \/ \E line \in ExitLines : Exit(line)
    \/ EndOfIteration
    \/ \E p \in ChildPids : ChildSetpgid(p)
    \/ \E p \in ChildPids : ChildExec(p)
    \/ \E p \in ChildPids : ChildFails(p)
    \/ \E p \in ChildPids : ProgramStops(p)
    \/ \E p \in ChildPids : ProgramEnds(p)

Spec == Init /\ [][Next]_vars

\* ------------------------------------------------------------ fairness
\* The status word of the last waitpid in tr, and the pid it was for (-1
\* and 0 when tr holds none).
LastWait(tr) ==
    LET W == {i \in 1..Len(tr) : tr[i][1] = "waitpid"}
    IN IF W = {} THEN <<"waitpid", 0, -1>>
       ELSE tr[CHOOSE i \in W : \A k \in W : k <= i]

\* A job that runs takes its next step: the child goes on in run_command,
\* the program ends or is stopped.
JobRuns(p) ==
    /\ proc[p].st \in {"pre", "noargs", "pgset", "execd"}
    /\ \/ ChildSetpgid(p)
       \/ ChildExec(p)
       \/ ChildFails(p)
       \/ ProgramStops(p)
       \/ ProgramEnds(p)

\* A blocked waitpid returns once it has something to report: a status
\* word, or that the pid is no child of the shell.
WaitReports ==
    /\ \/ ForegroundWaitReturns
       \/ ResumeWaitReturns
       \/ AwaitWaitReturns
       \/ AwaitAllWaitReturns
    /\ \/ LastWait(trace')[3] >= 0
       \/ proc[LastWait(trace')[2]].st = "free"

\* The shell and its jobs under a scheduler that lets every running job
\* run and wakes the shell when its wait has a result.
FairSpec ==
    /\ Init
    /\ [][Next]_vars
    /\ WF_vars(WaitReports)
    /\ \A p \in ChildPids : WF_vars(JobRuns(p))

\* ------------------------------------------- the shell not a group leader
\* The shell started by a program that kept it in its own process group:
\* getpid() is not getpgid(0), and no process group has the shell's pid as
\* its id.
NonLeaderInit ==
    /\ pc = "prompt"
    /\ main_ret = 0
    /\ tokens = <<>>
    /\ background = 0
    /\ jobs = <<>>
    /\ proc = [p \in ChildPids |-> FreeProc]
    /\ shell_pgid = LaunchPgid
    /\ tty = shell_pgid
    /\ ret = 0
    /\ trace = <<>>
    /\ cpid = 0
    /\ job_index = 0
    /\ job = 0
    /\ current = 0
    /\ start_jobs = <<>>
    /\ args = <<>>

NonLeaderSpec == NonLeaderInit /\ [][Next]_vars

\* ============================================================ executor
\* The forked child from the return of fork to the end of run_command, for
\* every token list the child can hold.  Here pc is the position of the
\* child in main(), tokens its copy of the vector, proc[1] the child in the
\* kernel; jobs and tty are the parent's registry and the terminal.

\* What the environment can make fail in run_command.
RunCommandFailures ==
    {"none", "open_in", "dup2_in", "open_out", "dup2_out", "sigaction",
     "setpgid", "execvp", "fault"}

\* swish_funcs.c:122-131: the argument array, with its NULL sentinel (the
\* empty token).
BuildArgs(toks, in_index, out_index, append_index) ==
    LET skipped(i) ==
            \/ (in_index # -1 /\ (i = in_index \/ i = in_index + 1))
            \/ (out_index # -1 /\ (i = out_index \/ i = out_index + 1))
            \/ (append_index # -1 /\ (i = append_index \/ i = append_index + 1))
        kept == SelectSeq([i \in 1..Len(toks) |-> i - 1],
                          LAMBDA i : ~skipped(i))
    IN [j \in 1..Len(kept) |-> toks[kept[j] + 1]] \o <<<<>>>>

\* swish_funcs.c:53-162: how run_command ends when the environment makes
\* fail fail: it returns -1, it calls _exit(1) after a failed execvp, the
\* program runs, or the child is killed in execvp (a NULL file name, the
\* argument list being empty, read by the library).  args is the array
\* given to execvp, group says whether the child's setpgid was done.
run_command(toks, fail) ==
    LET in_index == strvec_find(toks, Tok_in)
        out_index == strvec_find(toks, Tok_out)
        append_index == strvec_find(toks, Tok_append)
        argv == BuildArgs(toks, in_index, out_index, append_index)
        returns == [end |-> "return", rc |-> -1, args |-> <<>>, group |-> FALSE,
                    called |-> FALSE]
    IN IF Len(toks) = 0 THEN returns
       ELSE IF in_index # -1 /\ in_index + 1 >= Len(toks) THEN returns
       ELSE IF in_index # -1 /\ fail \in {"open_in", "dup2_in"} THEN returns
       ELSE IF out_index # -1 /\ out_index + 1 >= Len(toks) THEN returns
       ELSE IF out_index = -1 /\ append_index # -1
                  /\ append_index + 1 >= Len(toks) THEN returns
       ELSE IF (out_index # -1 \/ append_index # -1)
                  /\ fail \in {"open_out", "dup2_out"} THEN returns
       ELSE IF fail = "sigaction" THEN returns
       ELSE IF fail = "setpgid" THEN returns
       ELSE IF Len(argv) = 1
       THEN [end |-> IF fail = "fault" THEN "killed" ELSE "_exit", rc |-> 1,
             args |-> argv, group |-> TRUE, called |-> TRUE]
       ELSE IF fail = "execvp"
       THEN [end |-> "_exit", rc |-> 1, args |-> argv, group |-> TRUE,
             called |-> TRUE]
       ELSE [end |-> "exec", rc |-> 0, args |-> argv, group |-> TRUE,
             called |-> TRUE]

\* ChildAfterRunCommand without the exit(1): the child goes on to the end
\* of the iteration, as the parent does.
ChildAfterRunCommand_FallsThrough(rc) ==
    IF rc = -1 THEN [pc |-> "loop_end", ws |-> 0]
    ELSE [pc |-> "child_gone", ws |-> W_EXITCODE(0)]

\* swish.c:178-181: what the child does when run_command returned rc.
ChildAfterRunCommand(rc) ==
    IF rc = -1 THEN [pc |-> "child_gone", ws |-> ChildFailureStatus]
    ELSE [pc |-> "child_gone", ws |-> W_EXITCODE(0)]

\* The token lists the child can hold, and the registries of the parent.
ExecTokens == {Tok_prog, Tok_file, Tok_in, Tok_out, Tok_append}
ExecTokenLists == UNION {[1..n -> ExecTokens] : n \in 0..MaxTokens}
ExecRegistries == {<<>>, job_list_add(<<>>, MaxProcs, Tok_prog, BACKGROUND)}

\* swish.c:172-176: fork has returned 0 in the child.
ExecInit ==
    /\ pc = "child"
    /\ main_ret = 0
    /\ tokens \in ExecTokenLists
    /\ background \in {0, 1}
    /\ jobs \in ExecRegistries
    /\ proc = [p \in ChildPids |->
                 IF p = 1
                 THEN [st |-> "pre", pgid |-> ShellPid, ws |-> 0, rep |-> FALSE]
                 ELSE IF p = MaxProcs /\ jobs # <<>>
                 THEN [st |-> "execd", pgid |-> p, ws |-> 0, rep |-> FALSE]
                 ELSE FreeProc]
    /\ shell_pgid = ShellPid
    /\ tty = shell_pgid
    /\ ret = 0
    /\ trace = <<<<"fork", 0, 0>>>>
    /\ cpid = 0
    /\ job_index = 0
    /\ job = 0
    /\ current = 0
    /\ start_jobs = <<>>
    /\ args = <<>>

\* swish.c:178 and swish_funcs.c:53-162: the child calls run_command.
ChildRunCommand ==
    /\ pc = "child"
    /\ \E fail \in RunCommandFailures :
         LET o == run_command(tokens, fail)
         IN /\ args' = o.args
            /\ ret' = o.rc
            /\ trace' = IF o.called
                        THEN Append(trace, <<"execvp", 0, IF o.end = "exec"
                                                          THEN 0 ELSE -1>>)
                        ELSE trace
            /\ pc' = CASE o.end = "return" -> "child_returned"
                       [] o.end = "exec" -> "child_program"
                       [] OTHER -> "child_gone"
            /\ proc' = [proc EXCEPT
                          ![1].pgid = IF o.group THEN 1 ELSE @,
                          ![1].st = CASE o.end = "return" -> "pre"
                                      [] o.end = "exec" -> "execd"
                                      [] OTHER -> "zombie",
                          ![1].ws = CASE o.end = "_exit" -> W_EXITCODE(1)
                                      [] o.end = "killed" -> W_TERMSIG(11)
                                      [] OTHER -> 0]
    /\ UNCHANGED <<main_ret, tokens, background, jobs, tty, shell_pgid, cpid,
                   job_index, job, current, start_jobs>>

\* swish.c:178-181: run_command has returned.
ChildReturns ==
    /\ pc = "child_returned"
    /\ LET o == ChildAfterRunCommand(ret)
       IN /\ pc' = o.pc
          /\ proc' = IF o.pc = "child_gone"
                      THEN [proc EXCEPT ![1].st = "zombie", ![1].ws = o.ws]
                      ELSE proc
    /\ UNCHANGED <<main_ret, tokens, background, jobs, tty, shell_pgid, ret,
                   trace, cpid, job_index, job, current, start_jobs, args>>

ExecNext ==
    \/ ChildRunCommand
    \/ ChildReturns

ExecSpec == ExecInit /\ [][ExecNext]_vars

\* ================================================================ claims
\* What the line being run is, read from the tokens vector.
RunsLine(first_token) == tokens # <<>> /\ tokens[1] = first_token
ForegroundLaunchDone == pc = "loop_end" /\ RunsLine(Tok_prog) /\ background = 0
\* The entries of trace for one system call.
Calls(name) == {i \in 1..Len(trace) : trace[i][1] = name}
\* The status word the wait of the line returned (-1: none, or a failure).
WaitStatus ==
    IF Calls("waitpid") = {} THEN -1
    ELSE trace[CHOOSE i \in Calls("waitpid") : \A k \in Calls("waitpid") : k <= i][3]
\* list without the record at position k.
RemoveAt(list, k) ==
    [i \in 1..(Len(list) - 1) |-> IF i < k THEN list[i] ELSE list[i + 1]]
\* list without the records at the positions in K, the others in order.
WithoutPositions(list, K) ==
    LET kept == SelectSeq([i \in 1..Len(list) |-> <<i, list[i]>>],
                          LAMBDA x : x[1] \notin K)
    IN [i \in 1..Len(kept) |-> kept[i][2]]
\* The records of list, without their status.
Core(list) == [i \in 1..Len(list) |-> <<list[i].pid, list[i].name>>]
\* An index argument that designates a record of list.
ValidIndexToken(t, list) ==
    Len(t) = 1 /\ IsDigit(t[1]) /\ DigitValue(t[1]) < Len(list)

\* C1: when a foreground launch is over and the shell goes back to the
\* prompt, whatever the wait reported (exit, death by signal, stop), the
\* terminal's foreground process group is the shell's process group.
C1_ForegroundLaunchRestoresTerminal ==
    ForegroundLaunchDone => tty = shell_pgid

\* C1 witness: a foreground launch whose child was stopped is over, and the
\* terminal is the shell's again.
C1_Witness ==
    /\ ForegroundLaunchDone
    /\ WaitStatus >= 0 /\ WIFSTOPPED(WaitStatus)
    /\ tty = shell_pgid

\* C2: no failure of fork, setpgid, tcsetpgrp or waitpid during a launch
\* ends the shell: the shell process ends only by the exit built-in, that
\* is, main returns 0.
C2_ShellSurvivesFailures ==
    pc = "exited" => main_ret = 0

\* C3: after fg handed the terminal to the job's group, the shell is never
\* back at the end of the iteration (and so at the prompt) with the terminal
\* still owned by another group than the shell's, whether fg ended normally,
\* by a failure of kill or by a failure of waitpid.
C3_FgAlwaysRestoresTerminal ==
    (/\ pc = "loop_end"
     /\ RunsLine(Tok_fg)
     /\ trace # <<>>
     /\ trace[1][1] = "tcsetpgrp" /\ trace[1][3] = 0)
        => tty = shell_pgid

\* C4: when the wait of a foreground launch returns, a record is added if
\* and only if the child was stopped; the record is appended, holds the
\* child's pid and has STOPPED as its status; otherwise the registry is as
\* it was.
C4_StoppedChildGetsStoppedRecord ==
    [][(pc = "fl_wait" /\ pc' = "loop_end") =>
        LET status == trace'[Len(trace') - 1][3]
        IN IF WIFSTOPPED(status)
           THEN jobs' = Append(jobs, [pid |-> cpid, name |-> tokens[1],
                                      status |-> STOPPED])
           ELSE jobs' = jobs]_vars

\* C5: wait-for <i> on a record whose status is not BACKGROUND returns -1 at
\* once: no system call is made (no wait, no signal), and the registry, the
\* processes and the terminal are as they were.
C5_WaitForRefusesNonBackground ==
    [][(/\ pc = "prompt"
        /\ tokens' # <<>> /\ tokens'[1] = Tok_wait_for
        /\ Len(tokens') = 2 /\ ValidIndexToken(tokens'[2], jobs)
        /\ jobs[DigitValue(tokens'[2][1]) + 1].status # BACKGROUND)
       => (/\ pc' = "loop_end"
           /\ ret' = -1
           /\ trace' = <<>>
           /\ jobs' = jobs
           /\ proc' = proc
           /\ tty' = tty)]_vars

\* C5 witness: wait-for was refused on a record that a stopped foreground
\* command left (its status is neither BACKGROUND nor STOPPED).
C5_Witness ==
    /\ pc = "loop_end"
    /\ RunsLine(Tok_wait_for)
    /\ ret = -1
    /\ trace = <<>>
    /\ ValidIndexToken(tokens[2], jobs)
    /\ jobs[DigitValue(tokens[2][1]) + 1].status \notin {BACKGROUND, STOPPED}

\* C6: fg and bg with no index argument, with one that is not a number, or
\* with an index outside 0..length-1 return -1 before any effect: no system
\* call is made, and the registry, the processes and the terminal are as
\* they were.
C6_ResumeRefusesInvalidIndex ==
    [][(/\ pc = "prompt"
        /\ tokens' # <<>> /\ tokens'[1] \in {Tok_fg, Tok_bg}
        /\ (Len(tokens') < 2 \/ ~ValidIndexToken(tokens'[2], jobs)))
       => (/\ pc' = "loop_end"
           /\ ret' = -1
           /\ trace' = <<>>
           /\ jobs' = jobs
           /\ proc' = proc
           /\ tty' = tty)]_vars

\* C6 witness: fg was refused for a number that is out of range while the
\* registry holds a record.
C6_Witness ==
    /\ pc = "loop_end"
    /\ RunsLine(Tok_fg)
    /\ Len(tokens) = 2
    /\ IsDigit(tokens[2][1]) /\ DigitValue(tokens[2][1]) >= Len(jobs)
    /\ jobs # <<>>
    /\ ret = -1
    /\ trace = <<>>

\* C7: no two records of the registry hold the same pid.
C7_PidsDistinct ==
    \A i, k \in 1..Len(jobs) : i # k => jobs[i].pid # jobs[k].pid

\* C8: the registry changes by appending one record (a launch), or by
\* removing records with the others kept in order; fg and wait-for remove
\* at most the record at the position they resolved, so the records before
\* it keep their index and the records after it move down by one.
C8_IndicesPositional ==
    [][\/ Core(jobs') = Core(jobs)
       \/ /\ pc \in {"prompt", "fl_wait"}
          /\ Len(jobs') = Len(jobs) + 1
          /\ SubSeq(jobs', 1, Len(jobs)) = jobs
       \/ /\ pc \in {"rj_wait", "abj_wait"}
          /\ job \in 1..Len(jobs)
          /\ jobs' = RemoveAt(jobs, job)
       \/ /\ pc = "aabj_wait"
          /\ \E K \in SUBSET (1..Len(jobs)) :
               Core(jobs') = Core(WithoutPositions(jobs, K))]_vars

\* C8 witness: fg or wait-for removed the first record and a record that was
\* behind it is now first.
C8_Witness ==
    /\ pc = "loop_end"
    /\ (RunsLine(Tok_fg) \/ RunsLine(Tok_wait_for))
    /\ job = 1
    /\ WaitStatus >= 0 /\ ~WIFSTOPPED(WaitStatus)
    /\ jobs # <<>>

\* C9: fg calls, in this order, tcsetpgrp for the job's group, kill with
\* SIGCONT for the same group, waitpid for the same pid; kill is called only
\* after tcsetpgrp returned 0, and the shell waits with the terminal owned
\* by the job's group.
C9_FgOrder ==
    RunsLine(Tok_fg) =>
        /\ \A i \in Calls("kill") :
             /\ i = 2
             /\ trace[1] = <<"tcsetpgrp", trace[i][2], 0>>
        /\ \A i \in Calls("waitpid") :
             /\ i = 3
             /\ trace[2] = <<"kill", trace[i][2], 0>>
        /\ pc = "rj_wait" =>
             /\ Len(trace) = 2
             /\ trace[2] = <<"kill", jobs[job].pid, 0>>
             /\ tty = jobs[job].pid

\* C9 witness: fg went through its three calls and its wait returned.
C9_Witness ==
    /\ pc = "loop_end"
    /\ RunsLine(Tok_fg)
    /\ Len(trace) = 4
    /\ WaitStatus >= 0

\* C10: when the wait of fg returns, the record at the position resolved at
\* the start still holds the pid that was resolved and waited on; if the job
\* terminated exactly that record is removed, if it stopped the record is
\* kept with status STOPPED; the other records are unchanged.
C10_FgRemovesTheWaitedRecord ==
    [][(pc = "rj_wait" /\ pc' = "loop_end") =>
        /\ job = job_index + 1
        /\ job \in 1..Len(jobs)
        /\ jobs[job].pid = trace[1][2]
        /\ trace'[3][2] = jobs[job].pid
        /\ LET status == trace'[3][3]
           IN IF status < 0 THEN jobs' = jobs
              ELSE IF WIFSTOPPED(status)
              THEN jobs' = [jobs EXCEPT ![job].status = STOPPED]
              ELSE jobs' = RemoveAt(jobs, job)]_vars

\* C10 witness: fg saw its job terminate and removed it while another record
\* stays in the registry.
C10_Witness ==
    /\ pc = "loop_end"
    /\ RunsLine(Tok_fg)
    /\ WaitStatus >= 0 /\ ~WIFSTOPPED(WaitStatus)
    /\ jobs # <<>>
    /\ ret = 0

\* C11: bg <i> on a valid index makes exactly one system call, kill with
\* SIGCONT for the group of the record's pid: no wait (the shell goes on to
\* the end of the iteration), no tcsetpgrp, the terminal as it was.  When
\* the signal was sent the record's status is BACKGROUND and the rest of the
\* registry is as it was (same records, same order, same statuses); when
\* kill failed the registry is unchanged.
C11_BgRelabelsOnly ==
    [][(/\ pc = "prompt"
        /\ tokens' # <<>> /\ tokens'[1] = Tok_bg
        /\ Len(tokens') = 2 /\ ValidIndexToken(tokens'[2], jobs))
       => LET k == DigitValue(tokens'[2][1]) + 1
          IN /\ pc' = "loop_end"
             /\ Len(trace') = 1
             /\ trace'[1][1] = "kill" /\ trace'[1][2] = jobs[k].pid
             /\ tty' = tty
             /\ \A p \in ChildPids :
                   proc'[p] # proc[p] =>
                     (trace'[1][3] = 0 /\ proc[p].pgid = jobs[k].pid
                        /\ proc[p].st = "stopped" /\ proc'[p].st = "execd")
             /\ IF trace'[1][3] = 0
                THEN /\ ret' = 0
                     /\ jobs' = [jobs EXCEPT ![k].status = BACKGROUND]
                ELSE /\ ret' = -1
                     /\ jobs' = jobs]_vars

\* C11 witness: bg resumed the second of two records, a job that had been
\* stopped; its record is a background one, the first record is still a
\* stopped one, and the terminal is the shell's.
C11_Witness ==
    /\ pc = "loop_end"
    /\ RunsLine(Tok_bg)
    /\ ret = 0
    /\ trace = <<<<"kill", jobs[job].pid, 0>>>>
    /\ Len(jobs) = 2 /\ job = 2
    /\ jobs[2].status = BACKGROUND
    /\ jobs[1].status # BACKGROUND
    /\ proc[jobs[2].pid].st = "execd"
    /\ tty = shell_pgid

\* C12: a background launch whose fork succeeded makes no other system call
\* (no wait, no setpgid, no tcsetpgrp) and goes to the end of the iteration;
\* the registry is the old one with one record appended, holding the
\* child's pid and the status BACKGROUND; the terminal is as it was.
C12_BackgroundLaunchAppends ==
    [][(/\ pc = "prompt"
        /\ tokens' # <<>> /\ tokens'[1] = Tok_prog
        /\ background' = 1
        /\ trace'[1][3] >= 0)
       => (/\ pc' = "loop_end"
           /\ cpid' \in ChildPids
           /\ proc[cpid'].st = "free"
           /\ trace' = <<<<"fork", 0, cpid'>>>>
           /\ jobs' = Append(jobs, [pid |-> cpid', name |-> tokens'[1],
                                    status |-> BACKGROUND])
           /\ tty' = tty)]_vars

\* C12 witness: a background launch added the second record, behind a
\* record that is not a background one.
C12_Witness ==
    /\ pc = "loop_end"
    /\ RunsLine(Tok_prog) /\ background = 1
    /\ Len(jobs) = 2
    /\ jobs[2] = [pid |-> cpid, name |-> Tok_prog, status |-> BACKGROUND]
    /\ jobs[1].status # BACKGROUND
    /\ trace = <<<<"fork", 0, cpid>>>>
    /\ tty = shell_pgid

\* What wait-all has to leave of the registry list, read from position i on,
\* when its waits returned waits[k], waits[k+1], ... : a record that was a
\* background one takes the next wait; it goes when the wait reported a
\* termination and stays as a stopped one when the wait reported a stop;
\* every other record stays as it is.
RECURSIVE WaitAllExpected(_, _, _, _)
WaitAllExpected(list, i, waits, k) ==
    IF i > Len(list) THEN <<>>
    ELSE IF list[i].status # BACKGROUND
    THEN <<list[i]>> \o WaitAllExpected(list, i + 1, waits, k)
    ELSE IF k > Len(waits)
    THEN <<list[i]>> \o WaitAllExpected(list, i + 1, waits, k)
    ELSE IF WIFSTOPPED(waits[k][3])
    THEN <<[list[i] EXCEPT !.status = STOPPED]>>
             \o WaitAllExpected(list, i + 1, waits, k + 1)
    ELSE WaitAllExpected(list, i + 1, waits, k + 1)

\* The pids of the background records of list, in order.
BackgroundPids(list) ==
    LET b == SelectSeq(list, LAMBDA j : j.status = BACKGROUND)
    IN [i \in 1..Len(b) |-> b[i].pid]

\* C13: when wait-all has returned 0, it has waited once on each record
\* that was a background one at the start, in registry order, and on no
\* other; the records whose wait reported a termination are gone, those
\* whose wait reported a stop are there with status STOPPED, the records
\* that were not background ones are as they were, the order of what
\* remains is the old one, no record has status BACKGROUND, and no record
\* is left for a process that a wait of the pass saw terminate.
C13_WaitAllPostcondition ==
    (pc = "loop_end" /\ RunsLine(Tok_wait_all) /\ ret = 0) =>
        /\ [i \in 1..Len(trace) |-> trace[i][1]] =
               [i \in 1..Len(trace) |-> "waitpid"]
        /\ [i \in 1..Len(trace) |-> trace[i][2]] = BackgroundPids(start_jobs)
        /\ \A i \in 1..Len(trace) : trace[i][3] >= 0
        /\ jobs = WaitAllExpected(start_jobs, 1, trace, 1)
        /\ \A i \in 1..Len(jobs) : jobs[i].status # BACKGROUND
        /\ \A i \in 1..Len(trace) : \A k \in 1..Len(jobs) :
              ~WIFSTOPPED(trace[i][3]) => jobs[k].pid # trace[i][2]

\* C14: wait-for <i> on a background record makes no system call before
\* its wait, and the wait is on the pid of the record at index i; when the
\* wait reports a termination that record, and no other, is removed; when
\* it reports a stop the registry is as it was, the record still with
\* status BACKGROUND.
C14_WaitForRemovesOnTermination ==
    [][/\ (pc = "prompt" /\ pc' = "abj_wait") =>
            /\ trace' = <<>>
            /\ job' = job_index' + 1
            /\ tokens'[2] = <<Digits[job_index' + 1]>>
            /\ jobs[job'].status = BACKGROUND
            /\ jobs' = jobs /\ proc' = proc /\ tty' = tty
       /\ (pc = "abj_wait" /\ pc' = "loop_end") =>
            /\ Len(trace') = 1
            /\ trace'[1][1] = "waitpid" /\ trace'[1][2] = jobs[job].pid
            /\ LET status == trace'[1][3]
               IN IF status < 0 THEN jobs' = jobs
                  ELSE IF WIFSTOPPED(status)
                  THEN jobs' = jobs /\ jobs'[job].status = BACKGROUND
                  ELSE jobs' = RemoveAt(jobs, job)]_vars

\* C14 witness: wait-for saw the second of two jobs stop and left both
\* records as they were, the second one a background record.
C14_Witness ==
    /\ pc = "loop_end"
    /\ RunsLine(Tok_wait_for)
    /\ ret = 0
    /\ WaitStatus >= 0 /\ WIFSTOPPED(WaitStatus)
    /\ Len(jobs) = 2 /\ job = 2
    /\ jobs[2].status = BACKGROUND
    /\ proc[jobs[2].pid].st = "stopped"

\* C15: when fg, wait-for or wait-all is over, however it returned, no
\* record of the registry holds a pid that one of its waits reported as
\* terminated (and so reaped).
C15_ReapedRecordsAreRemoved ==
    (/\ pc = "loop_end"
     /\ (RunsLine(Tok_fg) \/ RunsLine(Tok_wait_for) \/ RunsLine(Tok_wait_all)))
        => \A i \in Calls("waitpid") :
              (trace[i][3] >= 0 /\ ~WIFSTOPPED(trace[i][3]))
                 => \A k \in 1..Len(jobs) : jobs[k].pid # trace[i][2]

\* The redirection operators.
RedirectionOperators == {Tok_in, Tok_out, Tok_append}

\* toks from position i on, without the redirection operators and without
\* the token that follows each of them.
RECURSIVE WithoutRedirections(_, _)
WithoutRedirections(toks, i) ==
    IF i > Len(toks) THEN <<>>
    ELSE IF toks[i] \in RedirectionOperators
    THEN WithoutRedirections(toks, i + 2)
    ELSE <<toks[i]>> \o WithoutRedirections(toks, i + 1)

\* C16: the forked child is never at a place of main() other than its call
\* of run_command and the exit that follows it: it runs the program or it
\* is gone, whatever fails in run_command; and no step of the child changes
\* the parent's registry or the terminal's foreground process group.
C16_ChildNeverReturnsToLoop ==
    /\ [](pc \in {"child", "child_returned", "child_program", "child_gone"})
    /\ [](pc = "child_gone" => proc[1].st = "zombie")
    /\ [](pc = "child_program" => proc[1].st = "execd")
    /\ [][jobs' = jobs /\ tty' = tty]_vars

\* C16 witness: run_command returned -1 for a list that ends in an operator
\* with no file name, and the child has exited with code 1; the parent's
\* registry holds its record.
C16_Witness ==
    /\ pc = "child_gone"
    /\ ret = -1
    /\ Len(tokens) = 2 /\ tokens[2] = Tok_in
    /\ proc[1].st = "zombie" /\ proc[1].ws = W_EXITCODE(1)
    /\ jobs # <<>>
    /\ tty = shell_pgid

\* C17: the argument array given to execvp is the token list without the
\* redirection operators and the token after each of them, in order, with
\* the NULL sentinel at its end.
C17_ArgsWithoutRedirections ==
    Calls("execvp") # {} => args = WithoutRedirections(tokens, 1) \o <<<<>>>>

\* C18: the tcsetpgrp that follows a wait, in a foreground launch and in
\* fg alike, names the shell's process group, whether the shell is the
\* leader of its group or not.
C18_RestoreTargetsShellGroup ==
    \A i \in Calls("tcsetpgrp") :
        (i > 1 /\ trace[i - 1][1] = "waitpid") => trace[i][2] = shell_pgid

\* C19: every running job eventually ending or stopping, the shell does not
\* stay in a wait of wait-for or of wait-all for ever: it gets to the end
\* of the iteration.
C19_WaitsReturn ==
    (pc \in {"abj_wait", "aabj_wait"}) ~> (pc \in {"loop_end", "exited"})

\* C20: in a foreground launch the parent's setpgid(cpid, cpid) on a child
\* that has not terminated does not fail, whatever the child has done by
\* then (nothing yet, its own setpgid, its execvp), and the shell goes on
\* to its wait with the child in the group of its own pid and that group
\* owning the terminal.
C20_ForegroundLaunchAnyInterleaving ==
    (RunsLine(Tok_prog) /\ background = 0) =>
        /\ \A i \in Calls("setpgid") :
              (pc = "exited" /\ proc[cpid].st = "zombie") \/ trace[i][3] = 0
        /\ pc = "fl_wait" =>
              /\ tty = cpid
              /\ proc[cpid].st # "free" => proc[cpid].pgid = cpid

\* C21: whenever fg or bg acts on the process group of a record whose
\* status is BACKGROUND (fg handing it the terminal, fg or bg sending it
\* SIGCONT), the record's process is in the process group whose id is the
\* record's pid.
C21_GroupExistsBeforeUse ==
    [][(/\ pc = "prompt"
        /\ tokens' # <<>> /\ tokens'[1] \in {Tok_fg, Tok_bg}
        /\ Len(tokens') = 2 /\ ValidIndexToken(tokens'[2], jobs)
        /\ jobs[DigitValue(tokens'[2][1]) + 1].status = BACKGROUND
        /\ trace' # <<>>)
       => LET pid == jobs[DigitValue(tokens'[2][1]) + 1].pid
          IN /\ proc[pid].st # "free"
             /\ proc[pid].pgid = pid]_vars

\* C22: whenever a record is added, the argument list (the tokens vector
\* after a trailing & was stripped) is not empty and the record's name is
\* its token at index 0; a line that is only & leaves the vector empty, and
\* then no record is added and the shell goes on to the end of the
\* iteration (it reads no released token, so it cannot fault).
C22_RecordNamedByFirstToken ==
    [][/\ (Len(jobs') = Len(jobs) + 1) =>
            /\ tokens' # <<>>
            /\ jobs'[Len(jobs')].name = tokens'[1]
       /\ (pc = "prompt" /\ background' = 1 /\ tokens' = <<>>
              /\ trace'[1][3] >= 0) =>
            /\ jobs' = jobs
            /\ pc' = "loop_end"]_vars

====
